---- MODULE Spec2Model ----
(***************************************************************************)
(* Search service: the index synchronisation pipeline (broker consumers -> *)
(* handlers -> ElasticsearchService -> engine) and the query compiler      *)
(* (SearchController.search -> buildSearchQuery -> engine search).         *)
(*                                                                         *)
(* Strings built by template literals (`tenant:${id}`) are modelled as     *)
(* pairs <<"tenant", id>>.  Timestamps (ISO strings in the source) are     *)
(* natural numbers; 0 stands for an absent (falsy) timestamp.  Absent      *)
(* (undefined) string fields are the value None.                           *)
(***************************************************************************)
EXTENDS Integers, Sequences, FiniteSets, TLC

\* ------------------------------------------------------------------ bounds
MaxMsgs == 2      \* messages the broker publishes in one run
MaxHttp == 1      \* manual index requests in one run
MaxClock == 2     \* the wall clock runs 1..MaxClock
MaxStamp == 2     \* snapshot timestamps (updated_at) are 1..MaxStamp
MaxTitles == 12   \* documents with a common title prefix in the suggestion index

None == "none"
NoStamp == 0

\* ------------------------------------------------------------- input sets
Tenants == {"t1", "t2"}
WorkItemIds == {"wi1"}
UserIds == {"u42"}
Titles == {"launch"}
Statuses == {"open"}
NewStatuses == {"done"}
Assignees == {"u42"}
Creators == {"u7"}
Stamps == 1..MaxStamp

Collections == {"work_items", "users", "templates"}
Queues == {"search.work_items", "search.users", "search.reindex"}

\* ---------------------------------------------------------- small helpers
Range(s) == {s[i] : i \in 1..Len(s)}

\* ------------------------------------------------------- document mapper
\* Role tokens pushed onto every work item's permissions.
RoleTokens ==
    << <<"role", "CEO">>, <<"role", "President">>, <<"role", "VP">>,
       <<"role", "Director">>, <<"role", "Manager">> >>

\* A calculatePermissions that pushes the assignee and creator tokens without
\* testing that the fields are set.
calculatePermissionsUnguarded(workItem) ==
    << <<"tenant", workItem.tenant_id>>, <<"user", workItem.assigned_to>>,
       <<"user", workItem.created_by>> >> \o RoleTokens

\* calculatePermissions: tenant token, then the assignee and the creator when
\* truthy, then the five role tokens.
calculatePermissions(workItem) ==
    << <<"tenant", workItem.tenant_id>> >>
    \o (IF workItem.assigned_to # None THEN << <<"user", workItem.assigned_to>> >> ELSE << >>)
    \o (IF workItem.created_by # None THEN << <<"user", workItem.created_by>> >> ELSE << >>)
    \o RoleTokens

\* The document reindexWorkItem builds from a work-item snapshot.
WorkItemDocument(workItem) ==
    [ id          |-> workItem.id,
      type        |-> "work_item",
      tenantId    |-> workItem.tenant_id,
      title       |-> workItem.title,
      content     |-> IF workItem.description # None THEN workItem.description ELSE "",
      workItemType |-> workItem.type,
      status      |-> workItem.status,
      priority    |-> workItem.priority,
      assignedTo  |-> workItem.assigned_to,
      tags        |-> workItem.tags,
      updatedAt   |-> workItem.updated_at,
      createdBy   |-> workItem.created_by,
      permissions |-> calculatePermissions(workItem) ]

\* The document handleUserEvent builds from a user snapshot at time `now`:
\* updatedAt falls back to the processing time when updated_at is falsy.
UserDocument(user, t) ==
    [ id          |-> user.id,
      type        |-> "user",
      tenantId    |-> user.tenant_id,
      title       |-> user.name,
      content     |-> user.name,
      workItemType |-> None,
      status      |-> None,
      priority    |-> None,
      assignedTo  |-> None,
      tags        |-> user.tags,
      updatedAt   |-> IF user.updated_at # NoStamp THEN user.updated_at ELSE t,
      createdBy   |-> IF user.created_by # None THEN user.created_by ELSE "system",
      permissions |-> << <<"tenant", user.tenant_id>>, <<"user", user.id>> >> ]

\* ------------------------------------------------------------------ engine
\* The search engine behind the client: per collection a set of documents with
\* distinct ids.  `index` creates or replaces by id; `update` merges the given
\* fields into an existing document and answers 404 when there is none;
\* `delete` removes an existing document and answers 404 when there is none
\* (the client raises a ResponseError on a 404 answer).
Exists(st, coll, id) == \E d \in st[coll] : d.id = id

Lookup(st, coll, id) == CHOOSE d \in st[coll] : d.id = id

Without(st, coll, id) == [st EXCEPT ![coll] = {d \in @ : d.id # id}]

\* Object spread {...a, ...b}; also the engine's merge of a partial document.
Spread(a, b) == [f \in DOMAIN a \cup DOMAIN b |-> IF f \in DOMAIN b THEN b[f] ELSE a[f]]

NoBody == [empty |-> TRUE]

\* An engine whose index keeps the permission tokens of the document it
\* replaces in front of the new ones.
EngineWriteKeepsTokens(st, req) ==
    CASE req.op = "index" ->
           [ store  |-> [Without(st, req.coll, req.id) EXCEPT ![req.coll] = @ \cup
                          {IF Exists(st, req.coll, req.id) /\ "permissions" \in DOMAIN req.body
                           THEN [req.body EXCEPT !.permissions =
                                    Lookup(st, req.coll, req.id).permissions \o @]
                           ELSE req.body}],
             answer |-> "ok" ]
      [] req.op = "update" ->
           IF Exists(st, req.coll, req.id)
           THEN [ store  |-> [Without(st, req.coll, req.id) EXCEPT
                                ![req.coll] = @ \cup {Spread(Lookup(st, req.coll, req.id), req.body)}],
                  answer |-> "ok" ]
           ELSE [ store |-> st, answer |-> "not_found" ]
      [] req.op = "delete" ->
           IF Exists(st, req.coll, req.id)
           THEN [ store |-> Without(st, req.coll, req.id), answer |-> "ok" ]
           ELSE [ store |-> st, answer |-> "not_found" ]

\* Result of the engine executing one write request on the store `st`:
\* the new store and the answer the client sees.
EngineWrite(st, req) ==
    CASE req.op = "index" ->
           [ store  |-> [Without(st, req.coll, req.id) EXCEPT ![req.coll] = @ \cup {req.body}],
             answer |-> "ok" ]
      [] req.op = "update" ->
           IF Exists(st, req.coll, req.id)
           THEN [ store  |-> [Without(st, req.coll, req.id) EXCEPT
                                ![req.coll] = @ \cup {Spread(Lookup(st, req.coll, req.id), req.body)}],
                  answer |-> "ok" ]
           ELSE [ store |-> st, answer |-> "not_found" ]
      [] req.op = "delete" ->
           IF Exists(st, req.coll, req.id)
           THEN [ store |-> Without(st, req.coll, req.id), answer |-> "ok" ]
           ELSE [ store |-> st, answer |-> "not_found" ]

\* ------------------------------------------------- ElasticsearchService
\* An indexDocument that does not ask the engine to wait for the refresh.
indexDocumentNoWait(indexName, document) ==
    [ op |-> "index", coll |-> indexName, id |-> document.id, body |-> document,
      refresh |-> "false" ]

\* indexDocument: client.index with the document's own id, refresh wait_for.
indexDocument(indexName, document) ==
    [ op |-> "index", coll |-> indexName, id |-> document.id, body |-> document,
      refresh |-> "wait_for" ]

\* An updateDocument that writes the partial document with client.index, which
\* creates the document when the id is not there.
updateDocumentByIndex(indexName, documentId, updates, t) ==
    [ op |-> "index", coll |-> indexName, id |-> documentId,
      body |-> Spread(Spread(updates, [updatedAt |-> t]), [id |-> documentId]),
      refresh |-> "wait_for" ]

\* An updateDocument that sends the stamp alone and leaves the updates out.
updateDocumentStampOnly(indexName, documentId, updates, t) ==
    [ op |-> "update", coll |-> indexName, id |-> documentId,
      body |-> [updatedAt |-> t], refresh |-> "wait_for" ]

\* updateDocument: client.update with doc = {...updates, updatedAt: new Date()}.
updateDocument(indexName, documentId, updates, t) ==
    [ op |-> "update", coll |-> indexName, id |-> documentId,
      body |-> Spread(updates, [updatedAt |-> t]), refresh |-> "wait_for" ]

\* deleteDocument: client.delete by id, refresh wait_for.
deleteDocument(indexName, documentId) ==
    [ op |-> "delete", coll |-> indexName, id |-> documentId, body |-> NoBody,
      refresh |-> "wait_for" ]

reindexWorkItem(workItem) == indexDocument("work_items", WorkItemDocument(workItem))

\* ------------------------------------------------------------- messages
\* A broker message: routing key and content.  The content is the payload a
\* successful JSON.parse returns, or Garbage when JSON.parse throws.
Garbage == [unparseable |-> TRUE]

Parses(content) == "unparseable" \notin DOMAIN content

WorkItems ==
    { [ id |-> i, tenant_id |-> tn, title |-> ti, description |-> None, type |-> "task",
        status |-> st, priority |-> "high", assigned_to |-> a, tags |-> << >>,
        updated_at |-> ts, created_by |-> c ] :
      i \in WorkItemIds, tn \in Tenants, ti \in Titles, st \in Statuses, a \in Assignees,
      ts \in Stamps, c \in Creators }

Users ==
    { [ id |-> i, tenant_id |-> tn, name |-> "ann", tags |-> << >>, updated_at |-> ts,
        created_by |-> None ] :
      i \in UserIds, tn \in {"t1"}, ts \in {NoStamp, 1} }

WorkItemMessages ==
    { [routingKey |-> "work_item.updated", content |-> [workItem |-> w]] : w \in WorkItems }
    \cup { [routingKey |-> "work_item.created", content |-> [workItem |-> w]] :
            w \in {x \in WorkItems : x.tenant_id = "t1" /\ x.updated_at = 1} }
    \cup { [routingKey |-> "work_item.deleted", content |-> [workItemId |-> i]] : i \in WorkItemIds }
    \cup { [routingKey |-> "work_item.status_changed",
            content |-> [workItemId |-> i, newStatus |-> ns]] :
            i \in WorkItemIds, ns \in NewStatuses }
    \cup { [routingKey |-> "work_item.assigned", content |-> [workItemId |-> i]] : i \in WorkItemIds }
    \cup { [routingKey |-> "work_item.updated", content |-> Garbage] }

UserMessages ==
    { [routingKey |-> "user.updated", content |-> [user |-> u]] : u \in Users }
    \cup { [routingKey |-> "user.deleted", content |-> [userId |-> i]] : i \in UserIds }
    \cup { [routingKey |-> "user.locked", content |-> [userId |-> i]] : i \in UserIds }
    \cup { [routingKey |-> "user.updated", content |-> Garbage] }

ReindexMessages ==
    { [routingKey |-> "search.reindex.tenant", content |-> [tenantId |-> "t1"]],
      [routingKey |-> "search.reindex.all", content |-> [all |-> TRUE]],
      [routingKey |-> "search.reindex.type", content |-> [type |-> "work_item"]],
      [routingKey |-> "search.reindex.all", content |-> Garbage] }

\* setupQueues: the messages the bindings work_item.*, user.* and
\* search.reindex.* route to each queue.
Routed(q) ==
    CASE q = "search.work_items" -> WorkItemMessages
      [] q = "search.users" -> UserMessages
      [] q = "search.reindex" -> ReindexMessages

\* setupQueues declares each queue with { durable: true } only: no queue has a
\* dead-letter exchange.
DeadLetterExchange(q) == None

\* ------------------------------------------------------------- handlers
\* What a handler does with a message at time t, up to its first engine call:
\*   "call"   - it issues the request `req` and awaits the answer;
\*   "skip"   - the switch matches no case, nothing is called;
\*   "raised" - JSON.parse threw inside the try block.
handleWorkItemEvent(msg, t) ==
    IF ~Parses(msg.content) THEN [kind |-> "raised", req |-> NoBody]
    ELSE CASE msg.routingKey \in {"work_item.created", "work_item.updated"} ->
                [kind |-> "call", req |-> reindexWorkItem(msg.content.workItem)]
           [] msg.routingKey = "work_item.deleted" ->
                [kind |-> "call", req |-> deleteDocument("work_items", msg.content.workItemId)]
           [] msg.routingKey = "work_item.status_changed" ->
                [kind |-> "call",
                 req |-> updateDocument("work_items", msg.content.workItemId,
                                        [status |-> msg.content.newStatus, updatedAt |-> t], t)]
           [] OTHER -> [kind |-> "skip", req |-> NoBody]

handleUserEvent(msg, t) ==
    IF ~Parses(msg.content) THEN [kind |-> "raised", req |-> NoBody]
    ELSE CASE msg.routingKey \in {"user.created", "user.updated"} ->
                [kind |-> "call", req |-> indexDocument("users", UserDocument(msg.content.user, t))]
           [] msg.routingKey = "user.deleted" ->
                [kind |-> "call", req |-> deleteDocument("users", msg.content.userId)]
           [] OTHER -> [kind |-> "skip", req |-> NoBody]

\* A handleReindexRequest whose full reindex starts by deleting a work item.
handleReindexRequestPurges(msg, t) ==
    IF ~Parses(msg.content) THEN [kind |-> "raised", req |-> NoBody]
    ELSE IF msg.routingKey = "search.reindex.all"
    THEN [kind |-> "call", req |-> deleteDocument("work_items", "wi1")]
    ELSE [kind |-> "skip", req |-> NoBody]

\* handleReindexRequest only logs: no case calls the engine.
handleReindexRequest(msg, t) ==
    IF ~Parses(msg.content) THEN [kind |-> "raised", req |-> NoBody]
    ELSE [kind |-> "skip", req |-> NoBody]

\* setupConsumers: the handler each queue's consumer callback awaits.
Handle(q, msg, t) ==
    CASE q = "search.work_items" -> handleWorkItemEvent(msg, t)
      [] q = "search.users" -> handleUserEvent(msg, t)
      [] q = "search.reindex" -> handleReindexRequest(msg, t)

\* The try/catch around each handler body: an error raised inside (by
\* JSON.parse or by the engine call) is logged and swallowed, so the handler's
\* promise always resolves.
HandlerResolvesRethrow(raised) == ~raised

HandlerResolves(raised) == TRUE

\* A consumer callback that acks only when the handling raised nothing.
AcksOnSuccess(raised) == ~raised

\* The consumer callback `await handler(msg); channel.ack(msg)`: the ack runs
\* when the awaited handler resolved.
AcksAfter(raised) == HandlerResolves(raised)

\* The catch blocks of indexDocument, updateDocument and deleteDocument log
\* and rethrow: every answer of the engine other than success is raised to
\* the caller.
GatewayRaises(answer) == answer # "ok"

\* -------------------------------------------------------- query compiler
\* A schema whose size has no upper limit.
ValidNoMax(body) ==
    "pagination" \in DOMAIN body =>
        /\ ("from" \in DOMAIN body.pagination => body.pagination.from >= 0)
        /\ ("size" \in DOMAIN body.pagination => body.pagination.size >= 1)

\* SearchQuerySchema.parse: query defaults to ''; pagination, when given, must
\* have from >= 0 and 1 <= size <= 100 (each defaulting when left out); keys
\* the schema does not name are stripped.
Valid(body) ==
    "pagination" \in DOMAIN body =>
        /\ ("from" \in DOMAIN body.pagination => body.pagination.from >= 0)
        /\ ("size" \in DOMAIN body.pagination =>
                body.pagination.size >= 1 /\ body.pagination.size <= 100)

\* The issues of the ZodError that SearchQuerySchema.parse throws, each with the
\* path of the field it is about, in the order of the schema.
Issues(body) ==
    IF "pagination" \notin DOMAIN body THEN << >>
    ELSE (IF "from" \in DOMAIN body.pagination /\ body.pagination.from < 0
          THEN << [code |-> "too_small", path |-> <<"pagination", "from">>] >> ELSE << >>)
         \o (IF "size" \in DOMAIN body.pagination /\ body.pagination.size < 1
             THEN << [code |-> "too_small", path |-> <<"pagination", "size">>] >> ELSE << >>)
         \o (IF "size" \in DOMAIN body.pagination /\ body.pagination.size > 100
             THEN << [code |-> "too_big", path |-> <<"pagination", "size">>] >> ELSE << >>)

SchemaKeys == {"query", "filters", "sort", "pagination"}

Validated(body) ==
    [ k \in (DOMAIN body \cap SchemaKeys) \cup {"query"} |->
        CASE k = "query" -> IF "query" \in DOMAIN body THEN body.query ELSE ""
          [] k = "pagination" -> Spread([from |-> 0, size |-> 20], body.pagination)
          [] OTHER -> body[k] ]

\* query.query && query.query.trim(): a non-empty text that is not all blanks.
HasText(q) == q \notin {"", " "}

Facets == <<"type", "workItemType", "status", "priority", "assignedTo", "tags">>

\* A compiler that emits a terms clause for every facet present, empty or not.
FacetClausesKeepEmpty(filters) ==
    LET clause(f) == IF f \in DOMAIN filters
                     THEN << [kind |-> "terms", field |-> f, values |-> filters[f]] >>
                     ELSE << >>
    IN clause(Facets[1]) \o clause(Facets[2]) \o clause(Facets[3])
       \o clause(Facets[4]) \o clause(Facets[5]) \o clause(Facets[6])

\* One terms clause for each facet whose array is present and non-empty, in
\* the order of the source, then the date range clause.
FacetClauses(filters) ==
    LET clause(f) == IF f \in DOMAIN filters /\ Len(filters[f]) > 0
                     THEN << [kind |-> "terms", field |-> f, values |-> filters[f]] >>
                     ELSE << >>
    IN clause(Facets[1]) \o clause(Facets[2]) \o clause(Facets[3])
       \o clause(Facets[4]) \o clause(Facets[5]) \o clause(Facets[6])

DateClause(filters) ==
    IF "dateRange" \in DOMAIN filters
    THEN << [kind |-> "range", field |-> filters.dateRange.field,
             bounds |-> [b \in DOMAIN filters.dateRange \ {"field"} |-> filters.dateRange[b]]] >>
    ELSE << >>

TenantClause(query) == << [kind |-> "term", field |-> "tenantId", value |-> query.tenantId] >>

DefaultSort == << [field |-> "_score", order |-> "desc"], [field |-> "updatedAt", order |-> "desc"] >>

\* A compiler that leaves the tenant clause out of the filter context.
buildSearchQueryNoTenant(query) ==
    [ must   |-> IF HasText(query.query)
                 THEN << [kind |-> "multi_match", query |-> query.query] >>
                 ELSE << [kind |-> "match_all"] >>,
      filter |-> IF "filters" \in DOMAIN query
                 THEN FacetClauses(query.filters) \o DateClause(query.filters)
                 ELSE << >>,
      sort   |-> IF "sort" \in DOMAIN query /\ Len(query.sort) > 0 THEN query.sort ELSE DefaultSort,
      page   |-> IF "pagination" \in DOMAIN query THEN query.pagination ELSE [size |-> 20] ]

\* A compiler that also restricts the hits to the documents the caller created.
buildSearchQueryOwnOnly(query) ==
    [ must   |-> IF HasText(query.query)
                 THEN << [kind |-> "multi_match", query |-> query.query] >>
                 ELSE << [kind |-> "match_all"] >>,
      filter |-> TenantClause(query)
                 \o << [kind |-> "term", field |-> "createdBy", value |-> query.userId] >>
                 \o (IF "filters" \in DOMAIN query
                     THEN FacetClauses(query.filters) \o DateClause(query.filters)
                     ELSE << >>),
      sort   |-> IF "sort" \in DOMAIN query /\ Len(query.sort) > 0 THEN query.sort ELSE DefaultSort,
      page   |-> IF "pagination" \in DOMAIN query THEN query.pagination ELSE [size |-> 20] ]

buildSearchQuery(query) ==
    [ must   |-> IF HasText(query.query)
                 THEN << [kind |-> "multi_match", query |-> query.query] >>
                 ELSE << [kind |-> "match_all"] >>,
      filter |-> TenantClause(query)
                 \o (IF "filters" \in DOMAIN query
                     THEN FacetClauses(query.filters) \o DateClause(query.filters)
                     ELSE << >>),
      sort   |-> IF "sort" \in DOMAIN query /\ Len(query.sort) > 0 THEN query.sort ELSE DefaultSort,
      page   |-> IF "pagination" \in DOMAIN query THEN query.pagination ELSE [size |-> 20] ]

AllIndices == <<"work_items", "users", "templates">>

getSearchIndices(query) ==
    LET given == "filters" \in DOMAIN query /\ "type" \in DOMAIN query.filters
                 /\ Len(query.filters.type) > 0
        types == IF given THEN Range(query.filters.type) ELSE {}
        indices == (IF "work_item" \in types THEN <<"work_items">> ELSE << >>)
                   \o (IF "user" \in types THEN <<"users">> ELSE << >>)
                   \o (IF "template" \in types THEN <<"templates">> ELSE << >>)
    IN IF ~given THEN AllIndices
       ELSE IF Len(indices) > 0 THEN indices ELSE AllIndices

\* The engine's reading of one clause against one document.  multi_match over
\* title, content and tags is token equality (analysis and fuzziness are the
\* engine's); terms on an array field matches when any element is listed.
Satisfies(doc, c) ==
    CASE c.kind = "match_all" -> TRUE
      [] c.kind = "multi_match" ->
            c.query = doc.title \/ c.query = doc.content \/ c.query \in Range(doc.tags)
      [] c.kind = "term" -> c.field \in DOMAIN doc /\ doc[c.field] = c.value
      [] c.kind = "terms" ->
            /\ c.field \in DOMAIN doc
            /\ IF c.field = "tags" THEN Range(doc.tags) \cap Range(c.values) # {}
               ELSE doc[c.field] \in Range(c.values)
      [] c.kind = "range" ->
            /\ c.field \in DOMAIN doc
            /\ ("from" \in DOMAIN c.bounds => doc[c.field] >= c.bounds.from)
            /\ ("to" \in DOMAIN c.bounds => doc[c.field] <= c.bounds.to)

\* The documents a bool query selects from the searchable view of the
\* collections named: those satisfying every must and every filter clause.
EngineSearch(vis, indices, searchBody) ==
    { d \in UNION {vis[c] : c \in Range(indices)} :
        /\ \A i \in 1..Len(searchBody.must) : Satisfies(d, searchBody.must[i])
        /\ \A i \in 1..Len(searchBody.filter) : Satisfies(d, searchBody.filter[i]) }

\* ------------------------------------------------------------- suggestions
\* The completion size getSuggestions asks for.
SuggestSize == 10

\* Titles that share the prefix "plan", and the ids of their documents.
PlanTitles ==
    << "plan a", "plan b", "plan c", "plan d", "plan e", "plan f", "plan g",
       "plan h", "plan i", "plan j", "plan k", "plan l", "plan m", "plan n" >>

PlanIds ==
    << "p01", "p02", "p03", "p04", "p05", "p06", "p07",
       "p08", "p09", "p10", "p11", "p12", "p13", "p14" >>

\* The prefix relation on the texts of the model.
StartsWith(text, prefix) ==
    CASE prefix = "plan" -> text \in Range(PlanTitles)
      [] prefix = "la" -> text = "launch"
      [] OTHER -> text = prefix

\* The elements of a finite set in some fixed order (the engine's ranking).
RECURSIVE Ordered(_)
Ordered(S) ==
    IF S = {} THEN << >>
    ELSE LET x == CHOOSE y \in S : TRUE IN <<x>> \o Ordered(S \ {x})

\* The engine's answer to the suggest section of a search request: the
\* completion suggester on title.suggest yields one option per searchable
\* document whose title starts with the prefix, at most `size` of them.  It
\* reads the suggest field of every document of the indices named: the bool
\* filter of the request restricts the hits (of which size 0 are asked for),
\* not the options.
EngineSuggest(vis, searchBody) ==
    LET options == Ordered({d \in UNION {vis[c] : c \in Collections} :
                               StartsWith(d.title, searchBody.suggest.prefix)})
        n == IF Len(options) < searchBody.suggest.size THEN Len(options)
             ELSE searchBody.suggest.size
    IN [i \in 1..n |-> [text |-> options[i].title]]

\* A getSuggestions whose catch rethrows.
getSuggestionsRethrow(vis, query, tenantId, up) ==
    LET searchBody == [ suggest |-> [prefix |-> query, size |-> SuggestSize],
                        filter  |-> << [kind |-> "term", field |-> "tenantId", value |-> tenantId] >>,
                        size    |-> 0 ]
        suggestions == EngineSuggest(vis, searchBody)
    IN IF up
       THEN [raised |-> FALSE, texts |-> [i \in DOMAIN suggestions |-> suggestions[i].text]]
       ELSE [raised |-> TRUE, texts |-> << >>]

\* getSuggestions: one engine search with a completion suggester for the
\* prefix and a tenant term filter; the texts of the options, or the empty
\* array when the call fails (`up` is false).
getSuggestions(vis, query, tenantId, up) ==
    LET searchBody == [ suggest |-> [prefix |-> query, size |-> SuggestSize],
                        filter  |-> << [kind |-> "term", field |-> "tenantId", value |-> tenantId] >>,
                        size    |-> 0 ]
        suggestions == EngineSuggest(vis, searchBody)
    IN IF up
       THEN [raised |-> FALSE, texts |-> [i \in DOMAIN suggestions |-> suggestions[i].text]]
       ELSE [raised |-> FALSE, texts |-> << >>]

\* Values of the query parameter q of GET /api/suggest; None is a missing or
\* non-string q.
SuggestParams == {None, "", "plan", "la", "zz"}

\* ---------------------------------------------------------------- HTTP side
AdminRoles == {"admin", "CEO", "President"}

Identities ==
    { [userId |-> "u42", role |-> "admin", tenantId |-> "t1"],
      [userId |-> "u9", role |-> "member", tenantId |-> "t1"],
      [userId |-> "u7", role |-> "member", tenantId |-> "t2"] }

\* req.user when authMiddleware attached no identity.
Anonymous == [anonymous |-> TRUE]

\* Bodies of POST /api/search.
SearchBodies ==
    { [query |-> "launch"],
      [filters |-> [status |-> <<"done">>]],
      [query |-> " ", filters |-> [type |-> <<"work_item">>, status |-> << >>]],
      [query |-> "launch", pagination |-> [size |-> 500]],
      [query |-> "launch", pagination |-> [size |-> 0]],
      [query |-> "launch", pagination |-> [from |-> -1, size |-> 10]],
      [query |-> "launch", pagination |-> [from |-> 1]],
      [filters |-> [assignedTo |-> <<"u42">>, priority |-> <<"high", "low">>, tags |-> << >>]],
      [filters |-> [type |-> << >>, status |-> <<"done">>]],
      [filters |-> [type |-> <<"user", "template">>]],
      [filters |-> [type |-> <<"project">>]],
      [query |-> "launch", tenantId |-> "t2", userId |-> "root", userRole |-> "CEO",
       pagination |-> [from |-> 0, size |-> 1]] }

NoSearch == [status |-> 0]

\* Bodies of POST /api/index: any index name and any document.
ManualDocuments ==
    { [ id |-> i, type |-> "work_item", tenantId |-> tn, title |-> "launch", content |-> "",
        workItemType |-> "task", status |-> "open", priority |-> "high", assignedTo |-> None,
        tags |-> << >>, updatedAt |-> 1, createdBy |-> "u42", permissions |-> p ] :
      i \in {"wi2"}, tn \in {"t2"}, p \in { << >> } }

\* ------------------------------------------------------------------- state
VARIABLES
    stored,     \* engine: the documents of each collection (real-time view)
    visible,    \* engine: the documents searches see (as of the last refresh)
    queues,     \* broker: the ready messages of each queue, oldest first
    published,  \* broker: messages published so far
    delivered,  \* channel: the last delivery tag handed to a consumer callback
    unacked,    \* channel: delivery tags delivered and not acknowledged
    tasks,      \* handler invocations awaiting the engine
    acks,       \* per delivery tag, the number of channel.ack calls
    verdict,    \* per delivery tag, how its handling ended
    now,        \* the wall clock
    http,       \* manual index requests accepted so far
    lastSearch, \* the answer to POST /api/search sent in the latest step, if any,
                \* with the request (req.user, req.body) it answers and whether the
                \* engine was failing when it was made
    writer,     \* history: per collection and id, the latest write the engine executed
    conn,       \* MessageQueueService: the state of the broker connection and its channel
    proc,       \* the process: how far start() has come, or how it ended
    lastSuggest, \* the answer to GET /api/suggest sent in the latest step, if any, with
                \* the request it answers and whether the engine call failed
    setup       \* MessageQueueService.connect: "topology" once setupQueues has returned,
                \* and each queue whose consumer setupConsumers has registered

vars == <<stored, visible, queues, published, delivered, unacked, tasks, acks, verdict, now, http,
          lastSearch, writer, conn, proc, lastSuggest, setup>>

Tags == 1..MaxMsgs

\* The process states in which the HTTP port is open, and those in which the
\* process has ended (process.exit(0), or process.exit(1) / a fatal error).
Listening == {"ready", "stopping"}

Ended == {"exited", "failed"}

NoSuggest == [status |-> 0]

\* setupConsumers registers the consumers in this order, awaiting each.
ConsumerOrder == <<"search.work_items", "search.users", "search.reindex">>

SetUp == {"topology"} \cup Queues

Init ==
    /\ stored = [c \in Collections |-> {}]
    /\ visible = [c \in Collections |-> {}]
    /\ queues = [q \in Queues |-> << >>]
    /\ published = 0
    /\ delivered = 0
    /\ unacked = {}
    /\ tasks = {}
    /\ acks = [tag \in Tags |-> 0]
    /\ verdict = [tag \in Tags |-> "none"]
    /\ now = 1
    /\ http = 0
    /\ lastSearch = NoSearch
    /\ writer = {}
    /\ conn = "disconnected"
    /\ proc = "constructed"
    /\ lastSuggest = NoSuggest
    /\ setup = {}

\* Time passes.
Tick ==
    /\ now < MaxClock
    /\ now' = now + 1
    /\ UNCHANGED <<stored, visible, queues, published, delivered, unacked, tasks, acks, verdict, http, writer,
                   conn, proc>>
    /\ lastSearch' = NoSearch /\ lastSuggest' = NoSuggest
    /\ UNCHANGED setup

\* A producer publishes message m, which the exchange routes to queue q.
Publish(q, m) ==
    /\ published < MaxMsgs
    /\ m \in Routed(q)
    /\ published' = published + 1
    /\ queues' = [queues EXCEPT ![q] = Append(@, m)]
    /\ UNCHANGED <<stored, visible, delivered, unacked, tasks, acks, verdict, now, http, writer, conn, proc>>
    /\ lastSearch' = NoSearch /\ lastSuggest' = NoSuggest
    /\ UNCHANGED setup

\* The open channel hands the oldest ready message of q, once q has a
\* consumer, to the consumer
\* callback, which runs the handler up to its first engine call.  A handler that calls
\* nothing finishes in the same turn, and the callback then acks.
Deliver(q) ==
    /\ conn = "connected"
    /\ q \in setup
    /\ proc \notin Ended
    /\ queues[q] # << >>
    /\ LET msg == Head(queues[q])
           tag == delivered + 1
           plan == Handle(q, msg, now)
       IN /\ delivered' = tag
          /\ queues' = [queues EXCEPT ![q] = Tail(@)]
          /\ IF plan.kind = "call"
             THEN /\ tasks' = tasks \cup
                        {[src |-> "amqp", tag |-> tag, queue |-> q, msg |-> msg,
                          req |-> plan.req, phase |-> "requested", answer |-> "none"]}
                  /\ unacked' = unacked \cup {tag}
                  /\ UNCHANGED <<acks, verdict>>
             ELSE /\ tasks' = tasks
                  /\ verdict' = [verdict EXCEPT ![tag] =
                                    IF plan.kind = "raised" THEN "poison" ELSE "ignored"]
                  /\ IF AcksAfter(plan.kind = "raised")
                     THEN /\ acks' = [acks EXCEPT ![tag] = @ + 1]
                          /\ unacked' = unacked
                     ELSE /\ acks' = acks
                          /\ unacked' = unacked \cup {tag}
    /\ UNCHANGED <<stored, visible, published, now, http, writer, conn, proc>>
    /\ lastSearch' = NoSearch /\ lastSuggest' = NoSuggest
    /\ UNCHANGED setup

\* requireRole and the controller's own check, then indexDocument with the
\* index name and the document of the request body, unvalidated.
ManualIndex(user, indexName, document) ==
    /\ proc \in Listening
    /\ http < MaxHttp
    /\ http' = http + 1
    /\ IF user.role \in AdminRoles
       THEN tasks' = tasks \cup
                {[src |-> "http", tag |-> http + 1, queue |-> "http", msg |-> NoBody,
                  req |-> indexDocument(indexName, document),
                  phase |-> "requested", answer |-> "none"]}
       ELSE tasks' = tasks
    /\ UNCHANGED <<stored, visible, queues, published, delivered, unacked, acks, verdict, now, writer,
                   conn, proc>>
    /\ lastSearch' = NoSearch /\ lastSuggest' = NoSuggest
    /\ UNCHANGED setup

\* The message of the error the engine client throws when the engine cannot
\* be reached.
EngineError == "connect ECONNREFUSED"

\* A controller that spreads the raw request body over the identity fields.
searchBodyLast(user, body, up) ==
    IF ~Valid(body)
    THEN [status |-> 400, success |-> FALSE, error |-> "Invalid search parameters",
          details |-> Issues(body), engineCalls |-> 0]
    ELSE IF "anonymous" \in DOMAIN user
    THEN [status |-> 401, error |-> "Authentication required", engineCalls |-> 0]
    ELSE LET searchQuery == Spread(Spread(Validated(body),
                                          [tenantId |-> user.tenantId, userId |-> user.userId,
                                           userRole |-> user.role]), body)
             indices == getSearchIndices(searchQuery)
         IN IF up
            THEN [ status |-> 200, success |-> TRUE, query |-> searchQuery, indices |-> indices,
                   hits |-> EngineSearch(visible, indices, buildSearchQuery(searchQuery)),
                   engineCalls |-> 1 ]
            ELSE [ status |-> 500, success |-> FALSE, error |-> "Search failed",
                   query |-> searchQuery, indices |-> indices, engineCalls |-> 1 ]

\* A controller whose 500 answer carries the message of the error it caught.
searchLeaksError(user, body, up) ==
    IF ~Valid(body)
    THEN [status |-> 400, success |-> FALSE, error |-> "Invalid search parameters",
          details |-> Issues(body), engineCalls |-> 0]
    ELSE IF "anonymous" \in DOMAIN user
    THEN [status |-> 401, error |-> "Authentication required", engineCalls |-> 0]
    ELSE LET searchQuery == Spread(Validated(body),
                                   [tenantId |-> user.tenantId, userId |-> user.userId,
                                    userRole |-> user.role])
             indices == getSearchIndices(searchQuery)
         IN IF up
            THEN [ status |-> 200, success |-> TRUE, query |-> searchQuery, indices |-> indices,
                   hits |-> EngineSearch(visible, indices, buildSearchQuery(searchQuery)),
                   engineCalls |-> 1 ]
            ELSE [ status |-> 500, success |-> FALSE, error |-> EngineError,
                   query |-> searchQuery, indices |-> indices, engineCalls |-> 1 ]

\* SearchController.search: validate the body (400 with the schema's issues),
\* require an identity (401), overlay the identity's tenant, user and role,
\* then ElasticsearchService.search: compile, pick the indices, one engine
\* call (client.search, `up` its outcome); an engine failure is logged and
\* rethrown, and the controller answers 500 with a fixed text.  `query` and
\* `indices` are what was sent to the engine, `engineCalls` the number of
\* client.search calls made; the other fields are the HTTP answer.
search(user, body, up) ==
    IF ~Valid(body)
    THEN [status |-> 400, success |-> FALSE, error |-> "Invalid search parameters",
          details |-> Issues(body), engineCalls |-> 0]
    ELSE IF "anonymous" \in DOMAIN user
    THEN [status |-> 401, error |-> "Authentication required", engineCalls |-> 0]
    ELSE LET searchQuery == Spread(Validated(body),
                                   [tenantId |-> user.tenantId, userId |-> user.userId,
                                    userRole |-> user.role])
             indices == getSearchIndices(searchQuery)
         IN IF up
            THEN [ status |-> 200, success |-> TRUE, query |-> searchQuery, indices |-> indices,
                   hits |-> EngineSearch(visible, indices, buildSearchQuery(searchQuery)),
                   engineCalls |-> 1 ]
            ELSE [ status |-> 500, success |-> FALSE, error |-> "Search failed",
                   query |-> searchQuery, indices |-> indices, engineCalls |-> 1 ]

Search(user, body, up) ==
    /\ proc \in Listening
    /\ lastSearch' = Spread(search(user, body, up), [user |-> user, body |-> body, failed |-> ~up])
    /\ UNCHANGED <<stored, visible, queues, published, delivered, unacked, tasks, acks, verdict, now,
                   http, writer, conn, proc>>
    /\ lastSuggest' = NoSuggest
    /\ UNCHANGED setup

\* SearchController.suggest: require an identity, require a non-empty string
\* q, then getSuggestions with the identity's tenant; 500 when that raises.
suggest(user, q, up) ==
    IF "anonymous" \in DOMAIN user THEN [status |-> 401]
    ELSE IF q \in {None, ""} THEN [status |-> 400]
    ELSE LET r == getSuggestions(visible, q, user.tenantId, up)
         IN IF r.raised THEN [status |-> 500] ELSE [status |-> 200, data |-> r.texts]

Suggest(user, q, up) ==
    /\ proc \in Listening
    /\ lastSuggest' = Spread(suggest(user, q, up), [user |-> user, q |-> q, failed |-> ~up])
    /\ lastSearch' = NoSearch
    /\ UNCHANGED <<stored, visible, queues, published, delivered, unacked, tasks, acks, verdict, now,
                   http, writer, conn, proc>>
    /\ UNCHANGED setup

\* The engine executes the write request of task t and answers; with refresh
\* wait_for a successful answer is held back until the next refresh.
EngineApply(t) ==
    /\ t.phase = "requested"
    /\ LET r == EngineWrite(stored, t.req)
       IN /\ stored' = r.store
          /\ tasks' = (tasks \ {t}) \cup
                {[t EXCEPT !.phase = IF r.answer = "ok" /\ t.req.refresh = "wait_for"
                                     THEN "applied" ELSE "answered",
                           !.answer = r.answer]}
          /\ writer' = IF r.answer = "ok"
                       THEN {w \in writer : ~(w.coll = t.req.coll /\ w.id = t.req.id)} \cup
                            {[coll |-> t.req.coll, id |-> t.req.id, src |-> t.src, tag |-> t.tag,
                              op |-> t.req.op, msg |-> t.msg]}
                       ELSE writer
    /\ UNCHANGED <<visible, queues, published, delivered, unacked, acks, verdict, now, http, conn, proc>>
    /\ lastSearch' = NoSearch /\ lastSuggest' = NoSuggest
    /\ UNCHANGED setup

\* The engine is unreachable or times out: the request fails, nothing is written.
EngineFail(t) ==
    /\ t.phase = "requested"
    /\ tasks' = (tasks \ {t}) \cup {[t EXCEPT !.phase = "answered", !.answer = "unavailable"]}
    /\ UNCHANGED <<stored, visible, queues, published, delivered, unacked, acks, verdict, now, http, writer,
                   conn, proc>>
    /\ lastSearch' = NoSearch /\ lastSuggest' = NoSuggest
    /\ UNCHANGED setup

\* The engine refreshes: every write so far becomes visible to searches and
\* the requests waiting for it are answered.
Refresh ==
    /\ visible # stored \/ \E t \in tasks : t.phase = "applied"
    /\ visible' = stored
    /\ tasks' = {IF t.phase = "applied" THEN [t EXCEPT !.phase = "answered"] ELSE t : t \in tasks}
    /\ UNCHANGED <<stored, queues, published, delivered, unacked, acks, verdict, now, http, writer, conn, proc>>
    /\ lastSearch' = NoSearch /\ lastSuggest' = NoSuggest
    /\ UNCHANGED setup

\* The awaited engine call of task t settles: the gateway rethrows a failure,
\* the handler logs and returns, and the consumer callback calls channel.ack.
\* On an open channel the message is acked.  On a channel that is closing,
\* closed or lost the ack call throws inside the callback, whose promise
\* nobody awaits: the runtime either only warns about the unhandled rejection
\* or terminates the process.  For a manual index request the controller
\* answers 200 or 500.
Resume(t) ==
    /\ t.phase = "answered"
    /\ proc \notin Ended
    /\ tasks' = tasks \ {t}
    /\ IF t.src = "amqp"
       THEN /\ verdict' = [verdict EXCEPT ![t.tag] =
                              IF GatewayRaises(t.answer) THEN "failed" ELSE "applied"]
            /\ IF AcksAfter(GatewayRaises(t.answer))
               THEN IF conn = "connected"
                    THEN /\ acks' = [acks EXCEPT ![t.tag] = @ + 1]
                         /\ unacked' = unacked \ {t.tag}
                         /\ proc' = proc
                    ELSE /\ UNCHANGED <<acks, unacked>>
                         /\ proc' \in {proc, "failed"}
               ELSE UNCHANGED <<acks, unacked, proc>>
       ELSE UNCHANGED <<verdict, acks, unacked, proc>>
    /\ UNCHANGED <<stored, visible, queues, published, delivered, now, http, writer, conn>>
    /\ lastSearch' = NoSearch /\ lastSuggest' = NoSuggest
    /\ UNCHANGED setup

\* --------------------------------------------------------------- lifecycle
\* start(): elasticsearchService.connect() resolves (cluster health read and
\* the indices set up) or rejects, and then the catch of start() exits.
StartEngine(up) ==
    /\ proc = "constructed"
    /\ proc' = IF up THEN "es_connected" ELSE "failed"
    /\ UNCHANGED <<stored, visible, queues, published, delivered, unacked, tasks, acks, verdict, now,
                   http, writer, conn>>
    /\ lastSearch' = NoSearch /\ lastSuggest' = NoSuggest
    /\ UNCHANGED setup

\* start() calls messageQueueService.connect(), which awaits amqp.connect.
ConnectBroker ==
    /\ proc = "es_connected"
    /\ conn = "disconnected"
    /\ conn' = "connecting"
    /\ UNCHANGED <<stored, visible, queues, published, delivered, unacked, tasks, acks, verdict, now,
                   http, writer, proc>>
    /\ lastSearch' = NoSearch /\ lastSuggest' = NoSuggest
    /\ UNCHANGED setup

\* amqp.connect resolves and the channel is created - the connection's error
\* and close listeners are installed - or amqp.connect rejects, connect()
\* logs and rethrows, and the catch of start() exits.
BrokerAnswers(up) ==
    /\ conn = "connecting"
    /\ conn' = IF up THEN "connected" ELSE "disconnected"
    /\ proc' = IF up THEN proc ELSE "failed"
    /\ UNCHANGED <<stored, visible, queues, published, delivered, unacked, tasks, acks, verdict, now,
                   http, writer>>
    /\ lastSearch' = NoSearch /\ lastSuggest' = NoSuggest
    /\ UNCHANGED setup

\* setupQueues: the exchange, the three queues and the three bindings are
\* declared, each call awaited.  A call that is refused, or made after the
\* connection was lost, throws; connect() rethrows and the catch of start()
\* exits.
DeclareTopology(up) ==
    /\ proc = "es_connected"
    /\ conn \in {"connected", "lost"}
    /\ "topology" \notin setup
    /\ IF up /\ conn = "connected"
       THEN setup' = setup \cup {"topology"} /\ proc' = proc
       ELSE setup' = setup /\ proc' = "failed"
    /\ UNCHANGED <<stored, visible, queues, published, delivered, unacked, tasks, acks, verdict, now,
                   http, writer, conn>>
    /\ lastSearch' = NoSearch /\ lastSuggest' = NoSuggest

\* A connect() that registers the consumers without waiting for setupQueues.
ConsumeUndeclared(k, up) ==
    /\ proc = "es_connected"
    /\ conn \in {"connected", "lost"}
    /\ k \in 1..Len(ConsumerOrder)
    /\ ConsumerOrder[k] \notin setup
    /\ \A j \in 1..(k - 1) : ConsumerOrder[j] \in setup
    /\ IF up /\ conn = "connected"
       THEN /\ setup' = setup \cup {ConsumerOrder[k]}
            /\ proc' = IF k = Len(ConsumerOrder) THEN "ready" ELSE proc
       ELSE setup' = setup /\ proc' = "failed"
    /\ UNCHANGED <<stored, visible, queues, published, delivered, unacked, tasks, acks, verdict, now,
                   http, writer, conn>>
    /\ lastSearch' = NoSearch /\ lastSuggest' = NoSuggest

\* setupConsumers: channel.consume for the next queue of ConsumerOrder is
\* confirmed, and from then on the channel delivers that queue's messages; or
\* it throws, connect() rethrows and the catch of start() exits.  After the
\* third consumer connect() returns and start(), in the same turn, opens the
\* HTTP port and installs the signal handlers.
Consume(k, up) ==
    /\ proc = "es_connected"
    /\ conn \in {"connected", "lost"}
    /\ "topology" \in setup
    /\ k \in 1..Len(ConsumerOrder)
    /\ ConsumerOrder[k] \notin setup
    /\ \A j \in 1..(k - 1) : ConsumerOrder[j] \in setup
    /\ IF up /\ conn = "connected"
       THEN /\ setup' = setup \cup {ConsumerOrder[k]}
            /\ proc' = IF k = Len(ConsumerOrder) THEN "ready" ELSE proc
       ELSE setup' = setup /\ proc' = "failed"
    /\ UNCHANGED <<stored, visible, queues, published, delivered, unacked, tasks, acks, verdict, now,
                   http, writer, conn>>
    /\ lastSearch' = NoSearch /\ lastSuggest' = NoSuggest

\* The broker connection fails or is closed by the peer: the 'error' and
\* 'close' listeners of connect() log, and nothing else is done.
ConnectionLost ==
    /\ conn = "connected"
    /\ proc \notin Ended
    /\ conn' = "lost"
    /\ UNCHANGED <<stored, visible, queues, published, delivered, unacked, tasks, acks, verdict, now,
                   http, writer, proc>>
    /\ lastSearch' = NoSearch /\ lastSuggest' = NoSuggest
    /\ UNCHANGED setup

\* SIGTERM or SIGINT: shutdown() calls disconnect(), which calls
\* channel.close() and awaits the broker.  On a lost connection the close
\* call throws, the catch of disconnect() logs, and shutdown() exits at once.
Shutdown ==
    /\ proc = "ready"
    /\ IF conn = "connected"
       THEN conn' = "closing" /\ proc' = "stopping"
       ELSE conn' = conn /\ proc' = "exited"
    /\ UNCHANGED <<stored, visible, queues, published, delivered, unacked, tasks, acks, verdict, now,
                   http, writer>>
    /\ lastSearch' = NoSearch /\ lastSuggest' = NoSuggest
    /\ UNCHANGED setup

\* The broker confirms the close of the channel and of the connection;
\* disconnect() returns and shutdown() calls process.exit(0).
Closed ==
    /\ proc = "stopping"
    /\ conn = "closing"
    /\ conn' = "closed"
    /\ proc' = "exited"
    /\ UNCHANGED <<stored, visible, queues, published, delivered, unacked, tasks, acks, verdict, now,
                   http, writer>>
    /\ lastSearch' = NoSearch /\ lastSuggest' = NoSuggest
    /\ UNCHANGED setup

Next ==
    \/ Tick
    \/ \E q \in Queues : \E m \in Routed(q) : Publish(q, m)
    \/ \E q \in Queues : Deliver(q)
    \/ \E u \in Identities : \E d \in ManualDocuments : ManualIndex(u, "work_items", d)
    \/ \E t \in tasks : EngineApply(t)
    \/ \E t \in tasks : EngineFail(t)
    \/ Refresh
    \/ \E t \in tasks : Resume(t)
    \/ \E up \in BOOLEAN : StartEngine(up)
    \/ ConnectBroker
    \/ \E up \in BOOLEAN : BrokerAnswers(up)
    \/ \E up \in BOOLEAN : DeclareTopology(up)
    \/ \E k \in 1..Len(ConsumerOrder) : \E up \in BOOLEAN : Consume(k, up)
    \/ ConnectionLost
    \/ Shutdown
    \/ Closed

Spec == Init /\ [][Next]_vars

\* The steps the service and the engine take on their own once enabled: the
\* event loop runs every ready continuation, and the broker and the engine
\* answer every request.  Publishing, signals, HTTP requests, the clock and
\* connection failures are the environment's.
Program ==
    \/ \E q \in Queues : Deliver(q)
    \/ \E t \in tasks : EngineApply(t) \/ EngineFail(t)
    \/ Refresh
    \/ \E t \in tasks : Resume(t)
    \/ \E up \in BOOLEAN : StartEngine(up)
    \/ ConnectBroker
    \/ \E up \in BOOLEAN : BrokerAnswers(up)
    \/ \E up \in BOOLEAN : DeclareTopology(up)
    \/ \E k \in 1..Len(ConsumerOrder) : \E up \in BOOLEAN : Consume(k, up)
    \/ Closed

SpecLive == Spec /\ WF_vars(Program)

\* ------------------------------------------------------------ read path
\* The read path alone, started from any index content the write path can
\* leave behind: documents mapped from snapshots, the same after a
\* status_changed update, user documents and manually indexed documents.
SeedWorkItems ==
    {WorkItemDocument(w) : w \in WorkItems}
    \cup {Spread(WorkItemDocument(w), [status |-> ns, updatedAt |-> MaxClock]) :
            w \in WorkItems, ns \in NewStatuses}
    \cup ManualDocuments

SeedUsers == {UserDocument(u, 1) : u \in Users}

UniqueIds(docs) == \A d, e \in docs : d.id = e.id => d = e

IndexContents ==
    { [c \in Collections |-> CASE c = "work_items" -> W [] c = "users" -> U [] OTHER -> {}] :
        W \in {X \in SUBSET SeedWorkItems : UniqueIds(X)},
        U \in {X \in SUBSET SeedUsers : UniqueIds(X)} }

InitSearch ==
    /\ stored \in IndexContents
    /\ visible = stored
    /\ queues = [q \in Queues |-> << >>]
    /\ published = 0
    /\ delivered = 0
    /\ unacked = {}
    /\ tasks = {}
    /\ acks = [tag \in Tags |-> 0]
    /\ verdict = [tag \in Tags |-> "none"]
    /\ now = 1
    /\ http = 0
    /\ lastSearch = NoSearch
    /\ writer = {}
    /\ conn = "connected"
    /\ proc = "ready"
    /\ lastSuggest = NoSuggest
    /\ setup = SetUp

NextSearch ==
    \/ \E u \in Identities \cup {Anonymous} : \E b \in SearchBodies : \E up \in BOOLEAN :
            Search(u, b, up)
    \/ \E u \in Identities : \E d \in ManualDocuments : ManualIndex(u, "work_items", d)
    \/ \E t \in tasks : EngineApply(t)
    \/ \E t \in tasks : EngineFail(t)
    \/ Refresh
    \/ \E t \in tasks : Resume(t)

SpecSearch == InitSearch /\ [][NextSearch]_vars

\* ------------------------------------------------------ suggestion lookup
\* GET /api/suggest on a started service whose work-item index holds n
\* documents titled with the common prefix, of the two tenants in turn.
PlanDocument(k) ==
    WorkItemDocument(
        [ id |-> PlanIds[k], tenant_id |-> IF k % 2 = 1 THEN "t1" ELSE "t2", title |-> PlanTitles[k],
          description |-> None, type |-> "task", status |-> "open", priority |-> "high",
          assigned_to |-> None, tags |-> << >>, updated_at |-> 1, created_by |-> "u7" ])

InitSuggest ==
    /\ \E n \in 0..MaxTitles :
          stored = [c \in Collections |->
                      IF c = "work_items" THEN {PlanDocument(k) : k \in 1..n} ELSE {}]
    /\ visible = stored
    /\ queues = [q \in Queues |-> << >>]
    /\ published = 0
    /\ delivered = 0
    /\ unacked = {}
    /\ tasks = {}
    /\ acks = [tag \in Tags |-> 0]
    /\ verdict = [tag \in Tags |-> "none"]
    /\ now = 1
    /\ http = 0
    /\ lastSearch = NoSearch
    /\ writer = {}
    /\ conn = "connected"
    /\ proc = "ready"
    /\ lastSuggest = NoSuggest
    /\ setup = SetUp

NextSuggest ==
    \E u \in Identities \cup {Anonymous} : \E q \in SuggestParams : \E up \in BOOLEAN :
        Suggest(u, q, up)

SpecSuggest == InitSuggest /\ [][NextSuggest]_vars

\* ------------------------------------------------------ permission mapping
\* The work-item write path alone, on a started service with an empty index,
\* fed snapshots whose assignee and creator are set, unset or the same user,
\* so that successive snapshots of one work item change its assignee.
PermissionWorkItems ==
    { [ id |-> i, tenant_id |-> tn, title |-> "launch", description |-> None, type |-> "task",
        status |-> "open", priority |-> "high", assigned_to |-> a, tags |-> << >>,
        updated_at |-> 1, created_by |-> c ] :
      i \in WorkItemIds, tn \in Tenants, a \in {None, "u42", "u9"}, c \in {None, "u7", "u42"} }

PublishSnapshot(w) ==
    /\ published < MaxMsgs
    /\ published' = published + 1
    /\ queues' = [queues EXCEPT !["search.work_items"] =
                     Append(@, [routingKey |-> "work_item.updated", content |-> [workItem |-> w]])]
    /\ UNCHANGED <<stored, visible, delivered, unacked, tasks, acks, verdict, now, http, writer, conn, proc>>
    /\ lastSearch' = NoSearch /\ lastSuggest' = NoSuggest
    /\ UNCHANGED setup

InitReady ==
    /\ stored = [c \in Collections |-> {}]
    /\ visible = stored
    /\ queues = [q \in Queues |-> << >>]
    /\ published = 0
    /\ delivered = 0
    /\ unacked = {}
    /\ tasks = {}
    /\ acks = [tag \in Tags |-> 0]
    /\ verdict = [tag \in Tags |-> "none"]
    /\ now = 1
    /\ http = 0
    /\ lastSearch = NoSearch
    /\ writer = {}
    /\ conn = "connected"
    /\ proc = "ready"
    /\ lastSuggest = NoSuggest
    /\ setup = SetUp

NextPermissions ==
    \/ \E w \in PermissionWorkItems : PublishSnapshot(w)
    \/ Deliver("search.work_items")
    \/ \E t \in tasks : EngineApply(t)
    \/ Refresh
    \/ \E t \in tasks : Resume(t)

SpecPermissions == InitReady /\ [][NextPermissions]_vars

\* ------------------------------------------------------ work-item consumer
\* The consumer of search.work_items alone on a started service with an empty
\* index: every work-item message, the engine answering or failing.
NextWorkItems ==
    \/ \E m \in Routed("search.work_items") : Publish("search.work_items", m)
    \/ Deliver("search.work_items")
    \/ \E t \in tasks : EngineApply(t)
    \/ \E t \in tasks : EngineFail(t)
    \/ Refresh
    \/ \E t \in tasks : Resume(t)

SpecWorkItems == InitReady /\ [][NextWorkItems]_vars

\* ----------------------------------------------------------------- startup
\* start() from the constructed service to the open HTTP port or the exit,
\* with messages waiting in the queues (one kind for each queue, and a
\* work item to create), the engine answering, manual index requests arriving
\* and the broker connection failing at any moment.
StartKeys == {"work_item.created", "work_item.deleted", "user.deleted", "search.reindex.all"}

NextStart ==
    \/ \E up \in BOOLEAN : StartEngine(up)
    \/ ConnectBroker
    \/ \E up \in BOOLEAN : BrokerAnswers(up)
    \/ \E up \in BOOLEAN : DeclareTopology(up)
    \/ \E k \in 1..Len(ConsumerOrder) : \E up \in BOOLEAN : Consume(k, up)
    \/ ConnectionLost
    \/ \E q \in Queues : \E m \in Routed(q) : m.routingKey \in StartKeys /\ Publish(q, m)
    \/ \E q \in Queues : Deliver(q)
    \/ \E u \in Identities : \E d \in ManualDocuments : ManualIndex(u, "work_items", d)
    \/ \E t \in tasks : EngineApply(t)
    \/ \E t \in tasks : EngineFail(t)
    \/ Refresh
    \/ \E t \in tasks : Resume(t)

SpecStart == Init /\ [][NextStart]_vars

\* ---------------------------------------------------- the three consumers
\* The consumers of the three queues on a started service with an empty
\* index: every routed message, the engine answering or failing, and the
\* broker connection lost at any moment.
NextConsumers ==
    \/ \E q \in Queues : \E m \in Routed(q) : Publish(q, m)
    \/ \E q \in Queues : Deliver(q)
    \/ \E t \in tasks : EngineApply(t)
    \/ \E t \in tasks : EngineFail(t)
    \/ Refresh
    \/ \E t \in tasks : Resume(t)
    \/ ConnectionLost

SpecConsumers == InitReady /\ [][NextConsumers]_vars

\* ------------------------------------------------- updates of an index
\* The consumer of search.work_items on a started service whose index already
\* holds documents, fed the messages that change or remove a document by id,
\* with the clock running between the deliveries.
UpdateKeys == {"work_item.status_changed", "work_item.deleted"}

NextUpdates ==
    \/ Tick
    \/ \E m \in Routed("search.work_items") :
            m.routingKey \in UpdateKeys /\ Publish("search.work_items", m)
    \/ Deliver("search.work_items")
    \/ \E t \in tasks : EngineApply(t)
    \/ \E t \in tasks : EngineFail(t)
    \/ Refresh
    \/ \E t \in tasks : Resume(t)

SpecUpdates == InitSearch /\ [][NextUpdates]_vars

\* ================================================================== claims
\* Step predicates: this step is the engine executing task t's write
\* successfully / this step delivers the head of queue q.
Executes(t) ==
    /\ t \in tasks
    /\ t.phase = "requested"
    /\ \E u \in tasks' : u.src = t.src /\ u.tag = t.tag /\ u.phase # "requested" /\ u.answer = "ok"

Delivers(q) ==
    /\ queues[q] # << >>
    /\ delivered' = delivered + 1
    /\ queues'[q] = Tail(queues[q])

\* The engine call of the handler of delivery `tag` has returned successfully.
Returned(tag) ==
    \/ verdict[tag] = "applied"
    \/ \E t \in tasks : t.src = "amqp" /\ t.tag = tag /\ t.phase = "answered" /\ t.answer = "ok"

\* The latest step answered a search whose query was compiled and sent to the
\* engine (the engine answered, 200, or failed, 500).
Sent == lastSearch.status \in {200, 500}

\* The latest search request gives pagination field f.
Gives(f) ==
    /\ lastSearch.status # 0
    /\ "pagination" \in DOMAIN lastSearch.body
    /\ f \in DOMAIN lastSearch.body.pagination

\* The search of tenant T for everything: empty text, no filters.
BrowseAll(T) ==
    LET q == [query |-> "", tenantId |-> T, userId |-> "u42", userRole |-> "member"]
    IN EngineSearch(visible, getSearchIndices(q), buildSearchQuery(q))

\* C1. Tenant isolation: the query compiled for a search request of tenant T
\* has the term filter tenantId = T in its filter context, and every document
\* the search returns has tenantId = T.
C1_TenantIsolation ==
    lastSearch.status = 200 =>
        LET T == lastSearch.query.tenantId
            searchBody == buildSearchQuery(lastSearch.query)
        IN /\ \E i \in 1..Len(searchBody.filter) :
                  searchBody.filter[i] = [kind |-> "term", field |-> "tenantId", value |-> T]
           /\ \A d \in lastSearch.hits : d.tenantId = T

\* A free-text search that returns documents while a document of another
\* tenant matches the same text.
C1_Witness ==
    /\ lastSearch.status = 200
    /\ HasText(lastSearch.query.query)
    /\ lastSearch.hits # {}
    /\ \E c \in Collections : \E d \in visible[c] :
          /\ d.tenantId # lastSearch.query.tenantId
          /\ Satisfies(d, [kind |-> "multi_match", query |-> lastSearch.query.query])

\* C2. A message is acknowledged only if its index operation succeeded: every
\* step that acks the message of a task finds that task answered "ok".
C2_AckOnlyAfterSuccess ==
    [][\A t \in tasks : (t.src = "amqp" /\ acks'[t.tag] > acks[t.tag]) => t.answer = "ok"]_vars

\* C3. Stale-write rejection: an upsert event delivered after the event that
\* wrote the indexed document of the same id, and carrying an older snapshot
\* than that document, leaves the document as it is.
C3_StaleWriteRejected ==
    [][\A t \in tasks :
          ( /\ Executes(t)
            /\ t.src = "amqp"
            /\ t.req.op = "index"
            /\ Exists(stored, t.req.coll, t.req.id)
            /\ \E w \in writer : /\ w.coll = t.req.coll /\ w.id = t.req.id
                                 /\ w.src = "amqp" /\ w.op = "index" /\ w.tag < t.tag
            /\ t.req.body.updatedAt < Lookup(stored, t.req.coll, t.req.id).updatedAt )
          => Lookup(stored', t.req.coll, t.req.id) = Lookup(stored, t.req.coll, t.req.id)]_vars

\* C4. Idempotent upsert: when the latest write of a document came from an
\* upsert event, applying the same event again leaves the index unchanged.
C4_UpsertIdempotent ==
    [][\A t \in tasks :
          ( /\ Executes(t)
            /\ t.src = "amqp"
            /\ t.req.op = "index"
            /\ \E w \in writer : /\ w.coll = t.req.coll /\ w.id = t.req.id
                                 /\ w.src = "amqp" /\ w.msg = t.msg )
          => stored' = stored]_vars

\* C5. Delete idempotence: a delete the engine answered (it was reachable)
\* never raises, also when the id is not in the collection.
C5_DeleteMissingSucceeds ==
    \A t \in tasks :
        (t.req.op = "delete" /\ t.phase = "answered" /\ t.answer # "unavailable")
        => ~GatewayRaises(t.answer)

\* C6. Read-after-write: once the engine call of the event that wrote a
\* document last has returned, a search in the document's tenant returns the
\* document as stored (upsert, partial update), and once the call of a delete
\* that wrote last has returned, no search returns that id.
C6_ReadAfterWrite ==
    \A w \in writer :
        (w.src = "amqp" /\ Returned(w.tag)) =>
            IF w.op = "delete"
            THEN \A T \in Tenants : \A d \in BrowseAll(T) : d.id # w.id
            ELSE /\ Exists(stored, w.coll, w.id)
                 /\ Lookup(stored, w.coll, w.id) \in BrowseAll(Lookup(stored, w.coll, w.id).tenantId)

\* A delete event was applied, after an earlier event had been applied, and
\* its handler has returned.
C6_Witness ==
    \E w \in writer :
        /\ w.src = "amqp" /\ w.op = "delete" /\ w.coll = "work_items"
        /\ verdict[w.tag] = "applied"
        /\ \E tag \in Tags : tag < w.tag /\ verdict[tag] = "applied"
        /\ \A T \in Tenants : \A d \in BrowseAll(T) : d.id # w.id

\* C7. Poison message: the step that delivers an unparseable message acks it
\* (once), leaves it out of the unacked set, calls nothing and changes no
\* collection; no step puts a message back on a queue, and no delivery is
\* acked twice.
C7_PoisonDropped ==
    [][ /\ \A q \in Queues :
              (Delivers(q) /\ ~Parses(Head(queues[q]).content)) =>
                  /\ acks'[delivered'] = 1
                  /\ delivered' \notin unacked'
                  /\ tasks' = tasks
                  /\ stored' = stored /\ visible' = visible
        /\ \A q \in Queues : Len(queues'[q]) > Len(queues[q]) => published' = published + 1
        /\ \A tag \in Tags : acks'[tag] <= 1 ]_vars

\* A poison message was acked and a later message of the same queue
\* (search.work_items) was applied to the index.
C7_Witness ==
    \E tag \in Tags : \E w \in writer :
        /\ verdict[tag] = "poison" /\ acks[tag] = 1
        /\ w.src = "amqp" /\ w.tag > tag /\ w.coll = "work_items"
        /\ verdict[w.tag] = "applied"

\* C8. Every indexed document's permissions contain tenant:<its tenantId>.
C8_PermissionsCarryTenant ==
    \A c \in Collections : \A d \in stored[c] : <<"tenant", d.tenantId>> \in Range(d.permissions)

\* C9. tenantId is immutable: no step changes the tenantId of a document that
\* exists before and after it.
C9_TenantImmutable ==
    [][\A c \in Collections : \A d \in stored[c] : \A e \in stored'[c] :
          d.id = e.id => e.tenantId = d.tenantId]_vars

\* C10. updatedAt is non-decreasing: no step lowers the updatedAt of a
\* document that exists before and after it.
C10_UpdatedAtMonotone ==
    [][\A c \in Collections : \A d \in stored[c] : \A e \in stored'[c] :
          d.id = e.id => e.updatedAt >= d.updatedAt]_vars

\* C11. Permission tags: the document indexed for a work item with tenant t,
\* assignee a and creator c carries exactly the tokens tenant:t, user:a when a
\* is set, user:c when c is set, and the five role tokens.
C11_PermissionTags ==
    \A w \in writer :
        (w.src = "amqp" /\ w.op = "index" /\ w.coll = "work_items") =>
            LET workItem == w.msg.content.workItem
            IN Range(Lookup(stored, w.coll, w.id).permissions) =
                   { <<"tenant", workItem.tenant_id>> }
                   \cup { <<"user", x>> : x \in {workItem.assigned_to, workItem.created_by} \ {None} }
                   \cup { <<"role", r>> : r \in {"CEO", "President", "VP", "Director", "Manager"} }

\* An indexed work item without assignee and with a creator: the creator's
\* token is there and no user token besides it.
C11_Witness ==
    \E w \in writer :
        /\ w.src = "amqp" /\ w.op = "index" /\ w.coll = "work_items"
        /\ w.msg.content.workItem.assigned_to = None
        /\ w.msg.content.workItem.created_by = "u7"
        /\ LET perms == Range(Lookup(stored, w.coll, w.id).permissions)
           IN {p \in perms : p[1] = "user"} = { <<"user", "u7">> }

\* C12. Within one queue messages are handled one at a time: no two handler
\* invocations for messages of the same queue are in flight (started and not
\* yet acknowledged) together.
C12_OneAtATimePerQueue ==
    \A t, u \in tasks :
        (t.src = "amqp" /\ u.src = "amqp" /\ t.queue = u.queue) => t.tag = u.tag

\* C13. Shutdown drains: once shutdown has begun no message is delivered, no
\* ack is sent on a channel that is not open, and the process exits only when
\* no message handling is in flight.
C13_ShutdownDrains ==
    [][ /\ proc \in {"stopping", "exited"} => delivered' = delivered
        /\ conn # "connected" => acks' = acks
        /\ (proc # "exited" /\ proc' = "exited") => \A t \in tasks : t.src # "amqp" ]_vars

\* C14. A message whose index write failed is never dropped: the step that
\* ends its handling either puts it back on its queue for another attempt or
\* rejects it, unacknowledged, to the queue's dead-letter exchange.
C14_RetriedOrDeadLettered ==
    [][\A t \in tasks :
          (t.src = "amqp" /\ t.phase = "answered" /\ GatewayRaises(t.answer) /\ t \notin tasks') =>
              \/ Len(queues'[t.queue]) > Len(queues[t.queue])
              \/ DeadLetterExchange(t.queue) # None /\ acks'[t.tag] = acks[t.tag]]_vars

\* C15. A lost broker connection leads to the consumer being connected again
\* or to the process having terminated.
C15_Reconnects == (conn = "lost") ~> (conn = "connected" \/ proc \in Ended)

\* C16 (as claimed). A request with size 0 or 500 results in an engine query
\* with size clamped into 1..100; a negative from is rejected; every query
\* sent has 1 <= size <= 100 and from >= 0, size 20 and from 0 by default.
C16_SizeClamped ==
    /\ (Gives("size") /\ lastSearch.body.pagination.size \in {0, 500}
           /\ "anonymous" \notin DOMAIN lastSearch.user)
          => (Sent /\ buildSearchQuery(lastSearch.query).page.size \in 1..100)
    /\ (Gives("from") /\ lastSearch.body.pagination.from < 0) => lastSearch.status = 400
    /\ Sent => LET page == buildSearchQuery(lastSearch.query).page
               IN /\ page.size \in 1..100
                  /\ "from" \in DOMAIN page => page.from >= 0
                  /\ ~Gives("size") => page.size = 20
                  /\ ~Gives("from") => ("from" \in DOMAIN page => page.from = 0)

\* C16 (amended). A request with size outside 1..100 or with a negative from
\* is rejected with 400 and no query is sent; every query sent has
\* 1 <= size <= 100 and from >= 0, with size 20 and from 0 (or left to the
\* engine's default) where the request does not give them.
C16_PaginationBounds ==
    /\ (Gives("size") /\ lastSearch.body.pagination.size \notin 1..100)
          => (lastSearch.status = 400 /\ "query" \notin DOMAIN lastSearch)
    /\ (Gives("from") /\ lastSearch.body.pagination.from < 0)
          => (lastSearch.status = 400 /\ "query" \notin DOMAIN lastSearch)
    /\ Sent => LET page == buildSearchQuery(lastSearch.query).page
               IN /\ page.size \in 1..100
                  /\ "from" \in DOMAIN page => page.from >= 0
                  /\ ~Gives("size") => page.size = 20
                  /\ ~Gives("from") => ("from" \in DOMAIN page => page.from = 0)

\* A request with size 500 from an authenticated caller was answered 400.
C16_Witness ==
    /\ Gives("size")
    /\ lastSearch.body.pagination.size = 500
    /\ "anonymous" \notin DOMAIN lastSearch.user
    /\ lastSearch.status = 400

\* C17. Facet filters: every document a search returns has, for each facet
\* given as a non-empty array, a value listed in it (for tags: one of its tags
\* listed); and facets absent or empty exclude nothing: every searchable
\* document of the caller's tenant in the indices searched that matches the
\* text and the non-empty facets is returned.
C17_FacetFilters ==
    lastSearch.status = 200 =>
        LET q == lastSearch.query
            filters == IF "filters" \in DOMAIN q THEN q.filters ELSE << >>
            Constrains(f) == f \in DOMAIN filters /\ filters[f] # << >>
            Listed(d, f) == IF f = "tags" THEN Range(d.tags) \cap Range(filters[f]) # {}
                            ELSE d[f] \in Range(filters[f])
            Passes(d) == \A f \in Range(Facets) : Constrains(f) => Listed(d, f)
            TextOk(d) == q.query \in {"", " "} \/ q.query \in {d.title, d.content} \cup Range(d.tags)
        IN /\ \A d \in lastSearch.hits : Passes(d)
           /\ \A c \in Range(getSearchIndices(q)) : \A d \in visible[c] :
                  (d.tenantId = q.tenantId /\ TextOk(d) /\ Passes(d)) => d \in lastSearch.hits

\* A search with status = ["done"] that returns a document while an open
\* document of the same tenant is searchable.
C17_Witness ==
    /\ lastSearch.status = 200
    /\ "filters" \in DOMAIN lastSearch.query
    /\ "status" \in DOMAIN lastSearch.query.filters
    /\ lastSearch.query.filters.status = <<"done">>
    /\ \E d \in lastSearch.hits : d.status = "done"
    /\ \E d \in visible["work_items"] :
          d.tenantId = lastSearch.query.tenantId /\ d.status = "open" /\ d \notin lastSearch.hits

\* C18. The tenantId, userId and userRole of the query handed to the compiler
\* are those of the authenticated identity, whatever the body holds, and a
\* request without identity is answered without a query being compiled.
C18_IdentityOverlay ==
    /\ Sent => /\ "anonymous" \notin DOMAIN lastSearch.user
               /\ lastSearch.query.tenantId = lastSearch.user.tenantId
               /\ lastSearch.query.userId = lastSearch.user.userId
               /\ lastSearch.query.userRole = lastSearch.user.role
    /\ (lastSearch.status # 0 /\ "anonymous" \in DOMAIN lastSearch.user)
          => (lastSearch.status \in {400, 401} /\ "query" \notin DOMAIN lastSearch)

\* A search whose body names another tenant, user and role was answered with
\* the query of the caller's own identity.
C18_Witness ==
    /\ lastSearch.status = 200
    /\ "tenantId" \in DOMAIN lastSearch.body
    /\ lastSearch.body.tenantId # lastSearch.user.tenantId
    /\ lastSearch.body.userId # lastSearch.user.userId
    /\ lastSearch.body.userRole # lastSearch.user.role
    /\ lastSearch.query.tenantId = lastSearch.user.tenantId

\* C19. Partial update of a missing id: when the engine executes the update
\* of a work_item.status_changed event whose id is not in the collection, it
\* answers not found, the gateway raises that to the handler, and the index
\* is left as it was, without a document of that id.
C19_UpdateMissingFails ==
    [][\A t \in tasks : \A u \in tasks' :
          ( /\ t.src = "amqp" /\ u.src = "amqp" /\ u.tag = t.tag
            /\ t.msg.routingKey = "work_item.status_changed"
            /\ t.phase = "requested" /\ u.phase # "requested" /\ u.answer # "unavailable"
            /\ ~Exists(stored, "work_items", t.msg.content.workItemId) )
          => /\ u.answer = "not_found"
             /\ GatewayRaises(u.answer)
             /\ stored' = stored
             /\ ~Exists(stored', "work_items", t.msg.content.workItemId)]_vars

\* A status_changed event for an id that was never indexed was answered not
\* found, and the collection has no document of that id.
C19_Witness ==
    \E t \in tasks :
        /\ t.src = "amqp"
        /\ t.msg.routingKey = "work_item.status_changed"
        /\ t.phase = "answered" /\ t.answer = "not_found"
        /\ \A w \in writer : ~(w.coll = "work_items" /\ w.id = t.msg.content.workItemId)
        /\ ~Exists(stored, "work_items", t.msg.content.workItemId)

\* C20. Suggestions never propagate an engine failure: a suggest request of an
\* authenticated caller with a prefix, whose engine call failed, is answered
\* success with the empty list; a successful one is answered with at most 10
\* texts, each the title of a searchable document starting with the prefix.
C20_SuggestDegrades ==
    (lastSuggest.status # 0 /\ "anonymous" \notin DOMAIN lastSuggest.user
        /\ lastSuggest.q \notin {None, ""})
    => /\ lastSuggest.status = 200
       /\ lastSuggest.failed => lastSuggest.data = << >>
       /\ Len(lastSuggest.data) <= 10
       /\ \A i \in 1..Len(lastSuggest.data) :
              \E c \in Collections : \E d \in visible[c] :
                  d.title = lastSuggest.data[i] /\ StartsWith(d.title, lastSuggest.q)

\* A suggest request for a prefix that more than 10 searchable titles start
\* with was answered the empty list because the engine call failed.
C20_Witness ==
    /\ lastSuggest.status = 200
    /\ lastSuggest.failed
    /\ lastSuggest.data = << >>
    /\ Cardinality({d \in visible["work_items"] : StartsWith(d.title, lastSuggest.q)}) > 10

\* C21. Suggestions are restricted to the caller's tenant: every text a
\* suggest request returns is the title of a searchable document of the
\* caller's tenant.
C21_SuggestTenantScoped ==
    lastSuggest.status = 200 =>
        \A i \in 1..Len(lastSuggest.data) :
            \E c \in Collections : \E d \in visible[c] :
                d.title = lastSuggest.data[i] /\ d.tenantId = lastSuggest.user.tenantId

C23_StatusChangeIdempotent ==
    [][ \A t \in tasks :
          ( /\ Executes(t)
            /\ t.src = "amqp"
            /\ t.msg.routingKey = "work_item.status_changed"
            /\ \E w \in writer : /\ w.coll = t.req.coll /\ w.id = t.req.id
                                  /\ w.op = "update" /\ w.msg = t.msg )
          => stored' = stored ]_vars

\* C24. Frame of the partial update: the engine executing the update of a
\* work_item.status_changed message changes, of the whole store, only the
\* status (to newStatus) and the updatedAt of the document with that id; the
\* document keeps its fields, every other field keeps its value, and every
\* other document of every collection is left as it was.
C24_StatusChangeFrame ==
    [][ \A t \in tasks :
          (Executes(t) /\ t.src = "amqp" /\ t.msg.routingKey = "work_item.status_changed") =>
            LET id == t.msg.content.workItemId
                old == Lookup(stored, "work_items", id)
                new == Lookup(stored', "work_items", id)
            IN /\ Exists(stored, "work_items", id) /\ Exists(stored', "work_items", id)
               /\ \A c \in Collections \ {"work_items"} : stored'[c] = stored[c]
               /\ {d \in stored'["work_items"] : d.id # id} = {d \in stored["work_items"] : d.id # id}
               /\ DOMAIN new = DOMAIN old
               /\ \A f \in DOMAIN old \ {"status", "updatedAt"} : new[f] = old[f]
               /\ new.status = t.msg.content.newStatus ]_vars

\* C24 witness: beside another work item and a user, a document mapped from
\* an open snapshot was last written by a status_changed update and now has
\* the new status with its title and permissions in place.
C24_Witness ==
    /\ \E w \in writer : /\ w.coll = "work_items" /\ w.id = "wi1" /\ w.op = "update"
                          /\ w.msg.routingKey = "work_item.status_changed"
    /\ \E d \in stored["work_items"] :
          /\ d.id = "wi1" /\ d.status = "done" /\ d.title = "launch" /\ Len(d.permissions) > 0
    /\ \E d \in stored["work_items"] : d.id = "wi2"
    /\ stored["users"] # {}

\* C25. Permissions are replaced, not merged, on every upsert: when the engine
\* executes the upsert of a work_item.updated snapshot over a document already
\* there, the document's permissions are exactly the tokens of the new
\* snapshot (its tenant, its assignee and creator where set, the five roles);
\* the token of the former assignee is gone unless that user is the new
\* snapshot's assignee or creator.
C25_PermissionsReplaced ==
    [][ \A t \in tasks :
          ( /\ Executes(t) /\ t.src = "amqp"
            /\ t.msg.routingKey = "work_item.updated"
            /\ Exists(stored, "work_items", t.msg.content.workItem.id) ) =>
            LET w == t.msg.content.workItem
                old == Lookup(stored, "work_items", w.id)
                new == Lookup(stored', "work_items", w.id)
            IN /\ Range(new.permissions) =
                    {<<"tenant", w.tenant_id>>}
                    \cup {<<"user", x>> : x \in {w.assigned_to, w.created_by} \ {None}}
                    \cup {<<"role", r>> : r \in {"CEO", "President", "VP", "Director", "Manager"}}
               /\ (old.assignedTo \notin {None, w.assigned_to, w.created_by} =>
                       <<"user", old.assignedTo>> \notin Range(new.permissions)) ]_vars

\* C25 witness: the snapshot assigned to u42 was indexed first (its handler
\* has its answer), the snapshot assigned to u9 and created by u7 was indexed
\* over it, and the document no longer carries user:u42.
C25_Witness ==
    /\ \E t \in tasks : /\ t.src = "amqp" /\ t.tag = 1 /\ t.phase = "answered" /\ t.answer = "ok"
                         /\ t.msg.content.workItem.assigned_to = "u42"
    /\ \E w \in writer : /\ w.coll = "work_items" /\ w.id = "wi1" /\ w.tag = 2
                          /\ w.msg.content.workItem.assigned_to = "u9"
                          /\ w.msg.content.workItem.created_by = "u7"
    /\ \E d \in stored["work_items"] :
          /\ d.id = "wi1" /\ d.assignedTo = "u9"
          /\ <<"user", "u42">> \notin Range(d.permissions)
          /\ <<"user", "u9">> \in Range(d.permissions)

\* C26. Collection selection: a search with a non-empty type filter is sent
\* to exactly the collections of the listed types (work_item -> work_items,
\* user -> users, template -> templates), so never to a collection of a type
\* not listed; a search with no type filter, or an empty one, is sent to all
\* three collections.
C26_CollectionSelection ==
    Sent =>
        LET b == lastSearch.body
            types == IF "filters" \in DOMAIN b /\ "type" \in DOMAIN b.filters
                     THEN Range(b.filters.type) ELSE {}
            matching == {c \in Collections :
                            \/ c = "work_items" /\ "work_item" \in types
                            \/ c = "users" /\ "user" \in types
                            \/ c = "templates" /\ "template" \in types}
        IN Range(lastSearch.indices) = IF types # {} THEN matching ELSE Collections

\* This step is the handler of the pending task t returning to the consumer
\* callback.
Returns(t) == t \in tasks /\ t.src = "amqp" /\ t.phase = "answered" /\ t \notin tasks'

\* C27 as stated. Every delivered message is acknowledged exactly once, after
\* its handler returns, whether the handling succeeded or raised: a delivery
\* whose handler has returned has exactly one ack, and no delivery has an ack
\* before its handler returned.
C27_AckedExactlyOnce ==
    \A tag \in Tags :
        /\ verdict[tag] # "none" => acks[tag] = 1
        /\ acks[tag] > 0 => verdict[tag] # "none"

\* C27 as amended. A delivered message is acknowledged when its handler
\* returns, whether the handling succeeded or raised, if the channel is open
\* at that moment, and is not acknowledged at all when the connection was lost
\* while the handler ran; no message is acknowledged before its handler
\* returned or more than once, and the service puts no message back on a
\* queue.
C27_AckedOnOpenChannel ==
    [][ /\ \A t \in tasks : Returns(t) =>
              /\ verdict[t.tag] = "none"
              /\ verdict'[t.tag] = (IF t.answer = "ok" THEN "applied" ELSE "failed")
              /\ acks[t.tag] = 0
              /\ acks'[t.tag] = (IF conn = "connected" THEN 1 ELSE 0)
        /\ \A q \in Queues : Delivers(q) =>
              LET tag == delivered'
                  pending == \E t \in tasks' : t.src = "amqp" /\ t.tag = tag
              IN /\ conn = "connected"
                 /\ acks'[tag] = (IF pending THEN 0 ELSE 1)
                 /\ pending <=> verdict'[tag] = "none"
        /\ \A tag \in Tags : acks'[tag] <= 1 /\ (acks'[tag] > 0 => verdict'[tag] # "none")
        /\ \A q \in Queues : Len(queues'[q]) > Len(queues[q]) => published' = published + 1
      ]_vars

\* C27 witness: on an open channel one message's update failed at the engine
\* and another's write was applied, and each has been acknowledged once.
C27_Witness ==
    /\ conn = "connected"
    /\ verdict[1] = "failed" /\ acks[1] = 1
    /\ verdict[2] = "applied" /\ acks[2] = 1

\* C28. A well-formed message whose routing key matches a binding but that no
\* handler case handles (work_item.assigned, user.locked), and every
\* well-formed search.reindex.* request, is acknowledged in the step that
\* delivers it, starts no engine call, and leaves every collection - stored
\* and searchable - as it was; no engine call in flight stems from such a
\* message.
C28_UnhandledAckedNoEffect ==
    [][ LET HandledKeys == {"work_item.created", "work_item.updated", "work_item.deleted",
                            "work_item.status_changed", "user.created", "user.updated",
                            "user.deleted"}
            Unhandled(q, m) == q = "search.reindex" \/ m.routingKey \notin HandledKeys
        IN /\ \A q \in Queues :
                (Delivers(q) /\ Parses(Head(queues[q]).content) /\ Unhandled(q, Head(queues[q]))) =>
                    /\ acks'[delivered'] = 1
                    /\ verdict'[delivered'] = "ignored"
                    /\ tasks' = tasks
                    /\ stored' = stored /\ visible' = visible
           /\ \A t \in tasks' : t.src = "amqp" => ~Unhandled(t.queue, t.msg)
      ]_vars

\* C28 witness: with a work item indexed by the first message, the second
\* message was one that no case handles; it has been acknowledged and the
\* index holds what it held.
C28_Witness ==
    /\ verdict[1] = "applied"
    /\ verdict[2] = "ignored" /\ acks[2] = 1
    /\ \E d \in stored["work_items"] : d.id = "wi1"
    /\ visible = stored

\* C29. The engine query and the collections of a search do not depend on who
\* of a tenant asks: the same body sent by any other identity of the caller's
\* tenant, whatever its userId and role, compiles to the same engine query,
\* goes to the same collections and gets the same hits - so the permissions
\* tokens of a document restrict nothing.
C29_IdentityBlind ==
    (Sent /\ lastSearch.user \in Identities) =>
        \A u \in Identities : u.tenantId = lastSearch.user.tenantId =>
            LET other == search(u, lastSearch.body, ~lastSearch.failed)
            IN /\ other.status = lastSearch.status
               /\ buildSearchQuery(other.query) = buildSearchQuery(lastSearch.query)
               /\ other.indices = lastSearch.indices
               /\ lastSearch.status = 200 => other.hits = lastSearch.hits

\* C29 witness: member u9 was answered a document of their tenant whose
\* permissions hold neither user:u9 nor role:member, while another identity
\* of the tenant, admin u42, exists to compare with.
C29_Witness ==
    /\ lastSearch.status = 200
    /\ lastSearch.user = [userId |-> "u9", role |-> "member", tenantId |-> "t1"]
    /\ \E d \in lastSearch.hits :
          /\ d.tenantId = "t1"
          /\ Len(d.permissions) > 0
          /\ <<"user", "u9">> \notin Range(d.permissions)
          /\ <<"role", "member">> \notin Range(d.permissions)
    /\ \E u \in Identities : u.tenantId = "t1" /\ u.userId # "u9" /\ u.role # "member"

\* C30 as stated. Startup ordering: a message is delivered to a consumer only
\* after the engine connection and index setup have completed and the
\* exchange, queues and bindings have been declared; the HTTP port opens only
\* when the broker connection has succeeded, consumers included; and when
\* start() fails the service exits having consumed no message and served no
\* request.
C30_StartupOrdering ==
    [][ /\ \A q \in Queues : Delivers(q) =>
              proc \in {"es_connected", "ready", "stopping"} /\ "topology" \in setup
        /\ (proc \notin Listening /\ proc' \in Listening) => setup' = SetUp
        /\ http' > http => proc \in Listening
        /\ (proc \in {"constructed", "es_connected"} /\ proc' = "failed") =>
              delivered = 0 /\ http = 0
      ]_vars

\* C30 as amended. The ordering holds as stated, and a start() that fails
\* exits having served no request; it has consumed no message if it fails
\* before the first consumer is registered, and messages only of the queues
\* whose consumers were registered before the failure otherwise.
C30_StartupOrderingPartial ==
    [][ /\ \A q \in Queues : Delivers(q) =>
              /\ proc \in {"es_connected", "ready", "stopping"}
              /\ "topology" \in setup /\ q \in setup
        /\ (proc \notin Listening /\ proc' \in Listening) => setup' = SetUp
        /\ http' > http => proc \in Listening
        /\ (proc \in {"constructed", "es_connected"} /\ proc' = "failed") =>
              /\ http = 0
              /\ setup \cap Queues = {} => delivered = 0
              /\ \A t \in tasks : t.src = "amqp" /\ t.queue \in setup
      ]_vars

\* C30 witness: with two messages waiting, the engine connected, the broker
\* connected and the topology declared, the first channel.consume failed and
\* the service exited with nothing delivered and no request served.
C30_Witness ==
    /\ proc = "failed"
    /\ setup = {"topology"}
    /\ published = MaxMsgs
    /\ delivered = 0 /\ http = 0

====
